---------------------------- MODULE Spec2Model ----------------------------
(***************************************************************************)
(* Model of src/src/main.ts: the "version" action.                         *)
(*                                                                         *)
(*   run             getTags -> getHistory -> findClosestTag -> outputs    *)
(*   getTags         drains the paged tag list into a Map sha -> name      *)
(*   getHistory      builds the commit cache, the shared page counter and  *)
(*                   the provider closure, and resolves the start commit   *)
(*   LazyGitCommit   node object; parents() resolves every parent through  *)
(*                   the provider concurrently (Promise.all)               *)
(*   findClosestTag  level-order walk over node objects with a null level  *)
(*                   marker                                                *)
(*                                                                         *)
(* JavaScript runs one task at a time: code between two awaits is atomic.  *)
(* A step of the model is therefore either the code from one resumption to *)
(* the next suspension, or (inside findClosestTag, where nothing else can  *)
(* run) one iteration of its loop.  The hosting service is the environment:*)
(* it holds a commit DAG and an ordered tag list and answers paged list     *)
(* requests, or fails a request.                                           *)
(***************************************************************************)
EXTENDS Integers, Sequences, FiniteSets, TLC

\* const pageSize = 100, scaled down so that lists longer than one page,
\* and lists that fill a page exactly, fit the bounds
pageSize == 3

(***************************************************************************)
(* Bounds of the model.                                                    *)
(***************************************************************************)
\* commits held by the service: 0 .. NumCommits-1, a parent is older (smaller)
NumCommits == 4
\* parents of one commit (2 = merge commit)
MaxParents == 2
\* tags held by the service in a full run: less than a page of them
MaxTags == pageSize - 1
\* tags held by the service when only getTags is run
MaxTagList == 6
\* commits held by the service when two parents of one merge commit are to be
\* missing from the cache: the shortest history that leaves two commits off
\* its first page
MergeCommits == pageSize + 2
\* invocations of getHistory + findClosestTag repeated on one service state
MaxRepeats == 1

\* depth is a JavaScript number: depth += 1 stops changing it once it is
\* large enough (2^53).  The model saturates it just above the longest path.
DepthCap == NumCommits + 2

NULL == 0

Commits == 0 .. (NumCommits - 1)

Min(a, b) == IF a < b THEN a ELSE b

(***************************************************************************)
(* Strings.  commit.sha of commit c, the name of the i-th tag of the       *)
(* service, and the messages of the errors.                                *)
(***************************************************************************)
Sha(c) == "C" \o ToString(c)

TagName(i) == "v" \o ToString(i)

ListTagsError == "listTags failed"

ListCommitsError == "listCommits failed"

AppendError == "appendFileSync failed"

(***************************************************************************)
(* The hosting service.  Its state is a commit DAG (parentsOf) and an      *)
(* ordered tag list (svcTags); both stay as they are during a run.  It     *)
(* numbers its pages from 0, or from 1 and then answers a request for      *)
(* page 0 with its first page (svcFirstPage).                              *)
(***************************************************************************)
Range(s) == {s[i] : i \in DOMAIN s}

IsInjective(s) == \A i, j \in DOMAIN s : s[i] = s[j] => i = j

\* the ordered parent lists a commit c can have: distinct older commits
ParentLists(c) ==
  {s \in UNION {[1 .. n -> 0 .. (c - 1)] : n \in 0 .. MaxParents} : IsInjective(s)}

\* every DAG over the commits 0 .. n-1, as a function commit -> parent list
RECURSIVE Dags(_)
Dags(n) ==
  IF n = 0 THEN {[c \in {} |-> <<>>]}
  ELSE {[c \in 0 .. (n - 1) |-> IF c = n - 1 THEN p ELSE g[c]] :
          g \in Dags(n - 1), p \in ParentLists(n - 1)}

\* the commits reachable from c over parent edges, c included
RECURSIVE Reach(_, _)
Reach(P, c) == {c} \cup UNION {Reach(P, P[c][i]) : i \in DOMAIN P[c]}

\* the DAGs a run can tell apart: what a commit that the start commit n-1
\* does not reach has for parents is never listed, so it has none
Repositories(n) ==
  {P \in Dags(n) : \A c \in (0 .. (n - 1)) \ Reach(P, n - 1) : P[c] = <<>>}

\* the tag list whose i-th tag is named TagName(i) (tag names are unique in
\* a repository) and points to the commit target[i]
TagList(target) == [i \in DOMAIN target |-> [name |-> TagName(i), sha |-> target[i]]]

\* the commit object the service returns for c (components.schemas.commit)
RawCommit(P, c) == [sha |-> c, parents |-> P[c]]

\* every commit of the service, most recent first
Log(P) ==
  LET n == Cardinality(DOMAIN P)
  IN [i \in 1 .. n |-> RawCommit(P, n - i)]

\* the history listing from c: every commit reachable from c, most recent first
History(P, c) ==
  LET within(raw) == raw.sha \in Reach(P, c)
  IN SelectSeq(Log(P), within)

\* page number pg of a list, per items a page, where the first page has the
\* number first; a smaller number gets the first page, a page past the end
\* of the list is empty
PageOf(list, pg, per, first) ==
  LET n == IF pg < first THEN 0 ELSE pg - first
  IN SubSeq(list, n * per + 1, Min((n + 1) * per, Len(list)))

\* octokit.rest.repos.listCommits({sha, page, per_page})
listCommits(P, hash, pg, per, first) == PageOf(History(P, hash), pg, per, first)

\* octokit.rest.repos.listTags({per_page, page})
listTags(T, pg, per, first) == PageOf(T, pg, per, first)

(***************************************************************************)
(* The state of one run.                                                   *)
(***************************************************************************)
VARIABLES
  parentsOf,   \* service: commit -> ordered list of its parents
  svcTags,     \* service: the ordered tag list, records [name, sha]
  svcFirstPage,\* service: the number of its first page, 0 or 1
  GITHUB_SHA,  \* process.env.GITHUB_SHA, the start commit
  pc,          \* where run() is
  tagPage,     \* getTags: let page
  tagReq,      \* getTags: the page parameter of the listTags request in flight
  tags,        \* getTags: result, the Map sha -> tag name (the tag index)
  commits,     \* getHistory: the Map sha -> raw commit (the commit cache)
  page,        \* getHistory: let page, shared by every call of the provider
  calls,       \* the provider calls of the pending getHistory / parents()
  nodes,       \* the LazyGitCommit objects created so far, by reference
  todo,        \* findClosestTag: the frontier, node references and NULL
  depth,       \* findClosestTag: let depth
  head,        \* findClosestTag: the element shifted last
  result,      \* what findClosestTag returned: <<>> or <<[tag, distance]>>
  output,      \* the values given to core.setOutput('version', ...)
  envFile,     \* the lines appended to the GITHUB_ENV file
  failed,      \* the messages given to core.setFailed
  answered,    \* log: the listCommits requests answered so far, in order of arrival
  level,       \* log: for each node object, the number of parent() hops that made it
  previous     \* log: the outcomes of the earlier invocations on the same service

vars == <<parentsOf, svcTags, svcFirstPage, GITHUB_SHA, pc, tagPage, tagReq, tags, commits,
          page, calls, nodes, todo, depth, head, result, output, envFile, failed,
          answered, level, previous>>

serviceVars == <<parentsOf, svcTags, svcFirstPage, GITHUB_SHA>>

tagVars == <<tagPage, tagReq, tags>>

walkVars == <<nodes, todo, depth, head, result>>

outVars == <<output, envFile, failed>>

logVars == <<answered, level, previous>>

NoRequest == -1

\* new Map()
EmptyMap == <<>>

(***************************************************************************)
(* getTags                                                                 *)
(***************************************************************************)
\* mutant of SetTag: a tag of a commit that has one already is dropped
SetTagKeepsFirst(map, tag) == map @@ (tag.sha :> tag.name)

\* result.set(tag.commit.sha, tag.name)
SetTag(map, tag) == (tag.sha :> tag.name) @@ map

\* for (const tag of tags) result.set(tag.commit.sha, tag.name)
RECURSIVE SetTags(_, _)
SetTags(map, items) ==
  IF items = <<>> THEN map
  ELSE SetTags(SetTag(map, Head(items)), Tail(items))

\* mutant of NextTagPage: the page counter is not advanced
NextTagPageStuck(pg) == pg

\* page += 1
NextTagPage(pg) == pg + 1

\* while (fetchCount === pageSize)
MoreTags(fetchCount) == fetchCount = pageSize

\* the loop body up to the await: the request for the current page goes out
GetTagsRequest ==
  /\ pc = "getTags"
  /\ tagReq' = tagPage
  /\ pc' = "listTags"
  /\ UNCHANGED <<serviceVars, logVars, tagPage, tags, commits, page, calls, walkVars, outVars>>

\* the response arrives: the rest of the loop body and the loop condition
GetTagsResponse ==
  /\ pc = "listTags"
  /\ LET data == listTags(svcTags, tagReq, pageSize, svcFirstPage)
         fetchCount == Len(data)
     IN /\ tagPage' = NextTagPage(tagPage)
        /\ tags' = SetTags(tags, data)
        /\ pc' = IF MoreTags(fetchCount) THEN "getTags" ELSE "getHistory"
  /\ tagReq' = NoRequest
  /\ UNCHANGED <<serviceVars, logVars, commits, page, calls, walkVars, outVars>>

\* the request fails: the error leaves getTags and run's catch reports it
GetTagsFails ==
  /\ pc = "listTags"
  /\ tagReq' = NoRequest
  /\ failed' = Append(failed, ListTagsError)
  /\ pc' = "failed"
  /\ UNCHANGED <<serviceVars, logVars, tagPage, tags, commits, page, calls, walkVars,
                 output, envFile>>

(***************************************************************************)
(* getHistory: the commit cache, the page counter and the provider.        *)
(*                                                                         *)
(* A call of the provider is a record: st = "wait" while its listCommits   *)
(* request (page parameter reqPage) is in flight, "ok" once it returned    *)
(* commit[1], "err" once it threw err.                                     *)
(***************************************************************************)
\* the message of the error thrown for a hash missing from the cache (the
\* JSON dump of the cache that follows it in the source is left out)
UndefinedError(hash, pg) ==
  "commit " \o Sha(hash) \o " was undefined, must not happen, page " \o ToString(pg)

Waiting(hash, pg) == [hash |-> hash, st |-> "wait", reqPage |-> pg, commit |-> <<>>, err |-> ""]

Returned(hash, raw) ==
  [hash |-> hash, st |-> "ok", reqPage |-> NoRequest, commit |-> <<raw>>, err |-> ""]

Thrown(hash, msg) ==
  [hash |-> hash, st |-> "err", reqPage |-> NoRequest, commit |-> <<>>, err |-> msg]

\* mutant of SetCommit: the cache holds the commit set last alone
SetCommitEvicts(cache, commit) == (commit.sha :> commit)

\* commits.set(commit.sha, commit)
SetCommit(cache, commit) == (commit.sha :> commit) @@ cache

\* for (const commit of rawCommits) commits.set(commit.sha, commit)
RECURSIVE SetCommits(_, _)
SetCommits(cache, rawCommits) ==
  IF rawCommits = <<>> THEN cache
  ELSE SetCommits(SetCommit(cache, Head(rawCommits)), Tail(rawCommits))

\* page += 1
NextPage(pg) == pg + 1

\* if (rawCommits.length < pageSize) break
LastPage(rawCommits) == Len(rawCommits) < pageSize

\* after the loop: commits.get(hash), thrown when undefined, else returned
ProviderLookup(cache, pg, hash) ==
  IF hash \in DOMAIN cache THEN Returned(hash, cache[hash])
  ELSE Thrown(hash, UndefinedError(hash, pg))

\* mutant of ProviderLoop: the request goes out before the cache is looked at
ProviderLoopFetchesFirst(cache, pg, hash) == Waiting(hash, pg)

\* the loop condition while (!commits.has(hash)) and, when it holds, the body
\* up to the await: a listCommits request with the current page goes out
ProviderLoop(cache, pg, hash) ==
  IF hash \in DOMAIN cache THEN ProviderLookup(cache, pg, hash)
  ELSE Waiting(hash, pg)

\* new LazyGitCommit(rawCommit, provider)
LazyGitCommit(rawCommit) ==
  [sha |-> rawCommit.sha, parentSha |-> rawCommit.parents, visited |-> FALSE]

AllReturned == \A i \in DOMAIN calls : calls[i].st = "ok"

SomeThrown == \E i \in DOMAIN calls : calls[i].st = "err"

\* the awaited promise (provider(sha), or Promise.all of parents()) is
\* settled: its continuation runs before any further response is handled
Settled == pc \in {"provider", "parents"} /\ (AllReturned \/ SomeThrown)

\* getHistory up to its await: the cache and the counter are created and
\* provider(sha) is called
GetHistoryCall ==
  /\ pc = "getHistory"
  /\ commits' = EmptyMap
  /\ page' = 0
  /\ calls' = <<ProviderLoop(EmptyMap, 0, GITHUB_SHA)>>
  /\ pc' = "provider"
  /\ UNCHANGED <<serviceVars, logVars, tagVars, walkVars, outVars>>

\* the response to the request of call i arrives: the rest of the loop body,
\* then the loop condition again
ListCommitsResponse(i) ==
  /\ i \in DOMAIN calls
  /\ calls[i].st = "wait"
  /\ ~Settled
  /\ LET hash == calls[i].hash
         rawCommits == listCommits(parentsOf, hash, calls[i].reqPage, pageSize, svcFirstPage)
         pg == NextPage(page)
         cache == SetCommits(commits, rawCommits)
     IN /\ page' = pg
        /\ commits' = cache
        /\ calls' = [calls EXCEPT ![i] =
                       IF LastPage(rawCommits) THEN ProviderLookup(cache, pg, hash)
                       ELSE ProviderLoop(cache, pg, hash)]
        /\ answered' = Append(answered, [sha |-> hash, page |-> calls[i].reqPage])
  /\ UNCHANGED <<serviceVars, level, previous, pc, tagVars, walkVars, outVars>>

\* the request of call i fails: the call throws the request's error
ListCommitsFails(i) ==
  /\ i \in DOMAIN calls
  /\ calls[i].st = "wait"
  /\ ~Settled
  /\ calls' = [calls EXCEPT ![i] = Thrown(calls[i].hash, ListCommitsError)]
  /\ UNCHANGED <<serviceVars, logVars, pc, tagVars, commits, page, walkVars, outVars>>

\* a provider call threw: the awaited promise rejects, the error leaves
\* getHistory / findClosestTag and run's catch reports its message
Rejected ==
  /\ pc \in {"provider", "parents"}
  /\ SomeThrown
  /\ LET i == CHOOSE j \in DOMAIN calls : calls[j].st = "err"
     IN failed' = Append(failed, calls[i].err)
  /\ pc' = "failed"
  /\ UNCHANGED <<serviceVars, logVars, tagVars, commits, page, calls, walkVars, output, envFile>>

(***************************************************************************)
(* findClosestTag                                                          *)
(***************************************************************************)
\* mutant of IncDepth: the marker leaves depth as it is
IncDepthStuck(d) == d

\* depth += 1
IncDepth(d) == IF d < DepthCap THEN d + 1 ELSE d

\* const candidateTag = tags.get(head.sha); candidateTag !== undefined
HasTag(index, node) == node.sha \in DOMAIN index

\* { tag: candidateTag, distance: depth }
Found(index, node, d) == [tag |-> index[node.sha], distance |-> d]

\* { tag: '', distance: -1 }
NotFound == [tag |-> "", distance |-> -1]

\* mutant of ParentCalls: every call resolves the first parent
ParentCallsFirstOnly(node, cache, pg) ==
  [i \in DOMAIN node.parentSha |-> ProviderLoop(cache, pg, node.parentSha[1])]

\* mutant of ParentCalls: the parents are resolved last to first
ParentCallsReversed(node, cache, pg) ==
  [i \in DOMAIN node.parentSha |->
     ProviderLoop(cache, pg, node.parentSha[Len(node.parentSha) + 1 - i])]

\* this.parentSha.map(async it => ... await this.commitProvider(it) ...): every
\* parent's provider call runs up to its first await, in list order
ParentCalls(node, cache, pg) ==
  [i \in DOMAIN node.parentSha |-> ProviderLoop(cache, pg, node.parentSha[i])]

\* mutant of Push: the parents go to the front of the frontier (depth first)
PushFront(queue, items) == items \o queue

\* mutant of Push: the level marker is not pushed back
PushCommitsOnly(queue, items) == IF items = <<NULL>> THEN queue ELSE queue \o items

\* mutant of Push: the items are pushed last to first
PushReversed(queue, items) == queue \o [i \in DOMAIN items |-> items[Len(items) + 1 - i]]

\* todo.push(...items)
Push(queue, items) == queue \o items

\* getHistory's return and findClosestTag up to its loop:
\* todo = [history, null], depth = 0
HistoryResolved ==
  /\ pc = "provider"
  /\ AllReturned
  /\ nodes' = Append(nodes, LazyGitCommit(calls[1].commit[1]))
  /\ level' = Append(level, 0)
  /\ todo' = <<Len(nodes) + 1, NULL>>
  /\ depth' = 0
  /\ calls' = <<>>
  /\ pc' = "findClosestTag"
  /\ UNCHANGED <<serviceVars, answered, previous, tagVars, commits, page, head, result,
                 outVars>>

\* one iteration of while (todo.length > 0), or the return after the loop
FindClosestTagStep ==
  /\ pc = "findClosestTag"
  /\ IF Len(todo) > 0
     THEN LET h == Head(todo)
              rest == Tail(todo)
          IN /\ head' = h
             /\ IF h = NULL
                THEN /\ depth' = IncDepth(depth)
                     /\ todo' = Push(rest, <<NULL>>)
                     /\ UNCHANGED <<pc, nodes, calls, result>>
                ELSE IF nodes[h].visited
                THEN /\ todo' = rest
                     /\ UNCHANGED <<pc, nodes, calls, depth, result>>
                ELSE IF HasTag(tags, nodes[h])
                THEN /\ result' = <<Found(tags, nodes[h], depth)>>
                     /\ todo' = rest
                     /\ pc' = "returned"
                     /\ UNCHANGED <<nodes, calls, depth>>
                ELSE /\ nodes' = [nodes EXCEPT ![h].visited = TRUE]
                     /\ calls' = ParentCalls(nodes[h], commits, page)
                     /\ todo' = rest
                     /\ pc' = "parents"
                     /\ UNCHANGED <<depth, result>>
     ELSE /\ result' = <<NotFound>>
          /\ pc' = "returned"
          /\ UNCHANGED <<nodes, todo, depth, head, calls>>
  /\ UNCHANGED <<serviceVars, logVars, tagVars, commits, page, outVars>>

\* Promise.all of parents() fulfils: todo.push(...parents), in list order
ParentsResolved ==
  /\ pc = "parents"
  /\ AllReturned
  /\ nodes' = nodes \o [i \in DOMAIN calls |-> LazyGitCommit(calls[i].commit[1])]
  /\ level' = level \o [i \in DOMAIN calls |-> level[head] + 1]
  /\ todo' = Push(todo, [i \in DOMAIN calls |-> Len(nodes) + i])
  /\ calls' = <<>>
  /\ pc' = "findClosestTag"
  /\ UNCHANGED <<serviceVars, answered, previous, tagVars, commits, page, depth, head,
                 result, outVars>>

(***************************************************************************)
(* run, after findClosestTag returned                                      *)
(***************************************************************************)
\* mutant of Version: a distance of 0 is taken for "no tag found"
VersionNoTagAtZero(res, sha) ==
  IF res.distance <= 0 THEN Sha(sha)
  ELSE res.tag \o "-" \o ToString(res.distance) \o "-" \o Sha(sha)

\* the three cases of let version
Version(res, sha) ==
  IF res.distance < 0 THEN Sha(sha)
  ELSE IF res.distance = 0 THEN res.tag
  ELSE res.tag \o "-" \o ToString(res.distance) \o "-" \o Sha(sha)

\* `VERSION=${version}`
EnvLine(version) == "VERSION=" \o version

\* core.setOutput and fs.appendFileSync both succeed
RunEmits ==
  /\ pc = "returned"
  /\ LET version == Version(result[1], GITHUB_SHA)
     IN /\ output' = Append(output, version)
        /\ envFile' = Append(envFile, EnvLine(version))
  /\ pc' = "done"
  /\ UNCHANGED <<serviceVars, logVars, tagVars, commits, page, calls, walkVars, failed>>

\* core.setOutput succeeds, fs.appendFileSync throws: run's catch reports it
RunAppendFails ==
  /\ pc = "returned"
  /\ output' = Append(output, Version(result[1], GITHUB_SHA))
  /\ failed' = Append(failed, AppendError)
  /\ pc' = "failed"
  /\ UNCHANGED <<serviceVars, logVars, tagVars, commits, page, calls, walkVars, envFile>>

(***************************************************************************)
(* getHistory + findClosestTag invoked again, as at lines 18-19 of run, on *)
(* the same start commit, tag index and service state: getHistory builds a *)
(* fresh cache, page counter and provider.                                 *)
(***************************************************************************)
\* how an invocation ended: what findClosestTag returned, or the message of
\* the error thrown
Outcome == [result |-> result, failed |-> failed]

Again ==
  /\ pc \in {"returned", "failed"}
  /\ Len(previous) < MaxRepeats
  /\ previous' = Append(previous, Outcome)
  /\ calls' = <<>>
  /\ nodes' = <<>>
  /\ todo' = <<>>
  /\ depth' = 0
  /\ head' = NULL
  /\ result' = <<>>
  /\ failed' = <<>>
  /\ answered' = <<>>
  /\ level' = <<>>
  /\ pc' = "getHistory"
  /\ UNCHANGED <<serviceVars, tagVars, commits, page, output, envFile>>

(***************************************************************************)
(* Specifications                                                          *)
(***************************************************************************)
CallIds == 1 .. MaxParents

\* svcTags is a list of lo to hi tags, each pointing to a commit of S
TagsBetween(lo, hi, S) ==
  \E k \in lo .. hi : \E target \in [1 .. k -> S] : svcTags = TagList(target)

\* a run over any service state: any DAG, any tag list, started at the
\* newest commit
Init ==
  /\ parentsOf \in Repositories(NumCommits)
  /\ TagsBetween(0, MaxTags, Commits)
  /\ svcFirstPage \in {0, 1}
  /\ GITHUB_SHA = NumCommits - 1
  /\ pc = "getTags"
  /\ tagPage = 0
  /\ tagReq = NoRequest
  /\ tags = EmptyMap
  /\ commits = EmptyMap
  /\ page = 0
  /\ calls = <<>>
  /\ nodes = <<>>
  /\ todo = <<>>
  /\ depth = 0
  /\ head = NULL
  /\ result = <<>>
  /\ output = <<>>
  /\ envFile = <<>>
  /\ failed = <<>>
  /\ answered = <<>>
  /\ level = <<>>
  /\ previous = <<>>

Next ==
  \/ GetTagsRequest
  \/ GetTagsResponse
  \/ GetTagsFails
  \/ GetHistoryCall
  \/ \E i \in CallIds : ListCommitsResponse(i)
  \/ \E i \in CallIds : ListCommitsFails(i)
  \/ Rejected
  \/ HistoryResolved
  \/ FindClosestTagStep
  \/ ParentsResolved
  \/ RunEmits
  \/ RunAppendFails

Spec == Init /\ [][Next]_vars


\* what the service's scheduling guarantees: a request in flight is answered
\* (or fails) and a ready continuation runs
Fairness == WF_vars(Next)

\* a run as in Init, the tag list short, or long (up to MaxTagList tags)
\* with every tag on one commit
LiveInit ==
  /\ parentsOf \in Repositories(NumCommits)
  /\ \/ TagsBetween(0, MaxTags, Commits)
     \/ \E c \in Commits : TagsBetween(MaxTags + 1, MaxTagList, {c})
  /\ svcFirstPage \in {0, 1}
  /\ GITHUB_SHA = NumCommits - 1
  /\ pc = "getTags"
  /\ tagPage = 0
  /\ tagReq = NoRequest
  /\ tags = EmptyMap
  /\ commits = EmptyMap
  /\ page = 0
  /\ calls = <<>>
  /\ nodes = <<>>
  /\ todo = <<>>
  /\ depth = 0
  /\ head = NULL
  /\ result = <<>>
  /\ output = <<>>
  /\ envFile = <<>>
  /\ failed = <<>>
  /\ answered = <<>>
  /\ level = <<>>
  /\ previous = <<>>

FairSpec == LiveInit /\ [][Next]_vars /\ Fairness

\* invocations repeated on a service that answers every request, over every
\* DAG of MergeCommits commits and at most one tag
RepeatInit ==
  /\ parentsOf \in Repositories(MergeCommits)
  /\ TagsBetween(0, 1, 0 .. (MergeCommits - 1))
  /\ svcFirstPage \in {0, 1}
  /\ GITHUB_SHA = MergeCommits - 1
  /\ pc = "getTags"
  /\ tagPage = 0
  /\ tagReq = NoRequest
  /\ tags = EmptyMap
  /\ commits = EmptyMap
  /\ page = 0
  /\ calls = <<>>
  /\ nodes = <<>>
  /\ todo = <<>>
  /\ depth = 0
  /\ head = NULL
  /\ result = <<>>
  /\ output = <<>>
  /\ envFile = <<>>
  /\ failed = <<>>
  /\ answered = <<>>
  /\ level = <<>>
  /\ previous = <<>>

RepeatNext ==
  \/ GetTagsRequest
  \/ GetTagsResponse
  \/ GetHistoryCall
  \/ \E i \in CallIds : ListCommitsResponse(i)
  \/ Rejected
  \/ HistoryResolved
  \/ FindClosestTagStep
  \/ ParentsResolved
  \/ Again

RepeatSpec == RepeatInit /\ [][RepeatNext]_vars

\* one run, requests that fail included, over the same service states
MergeSpec == RepeatInit /\ [][Next]_vars

\* getTags alone, over every tag list of at most MaxTagList tags
TagInit ==
  /\ parentsOf = [c \in Commits |-> <<>>]
  /\ TagsBetween(0, MaxTagList, Commits)
  /\ svcFirstPage \in {0, 1}
  /\ GITHUB_SHA = NumCommits - 1
  /\ pc = "getTags"
  /\ tagPage = 0
  /\ tagReq = NoRequest
  /\ tags = EmptyMap
  /\ commits = EmptyMap
  /\ page = 0
  /\ calls = <<>>
  /\ nodes = <<>>
  /\ todo = <<>>
  /\ depth = 0
  /\ head = NULL
  /\ result = <<>>
  /\ output = <<>>
  /\ envFile = <<>>
  /\ failed = <<>>
  /\ answered = <<>>
  /\ level = <<>>
  /\ previous = <<>>

TagNext == GetTagsRequest \/ GetTagsResponse \/ GetTagsFails

TagSpec == TagInit /\ [][TagNext]_vars

\* the results the two return statements of findClosestTag can produce
Results ==
  {NotFound} \cup {[tag |-> TagName(i), distance |-> d] : i \in 1 .. MaxTags, d \in 0 .. DepthCap}

\* the end of run alone, over every result and start commit
FormatInit ==
  /\ parentsOf = [c \in Commits |-> <<>>]
  /\ svcTags = <<>>
  /\ svcFirstPage = 0
  /\ GITHUB_SHA \in Commits
  /\ pc = "returned"
  /\ tagPage = 1
  /\ tagReq = NoRequest
  /\ tags = EmptyMap
  /\ commits = EmptyMap
  /\ page = 1
  /\ calls = <<>>
  /\ nodes = <<>>
  /\ todo = <<>>
  /\ depth = 0
  /\ head = NULL
  /\ result \in {<<r>> : r \in Results}
  /\ output = <<>>
  /\ envFile = <<>>
  /\ failed = <<>>
  /\ answered = <<>>
  /\ level = <<>>
  /\ previous = <<>>

FormatNext == RunEmits \/ RunAppendFails

FormatSpec == FormatInit /\ [][FormatNext]_vars

(***************************************************************************)
(* Graph notions the properties are stated with.                           *)
(***************************************************************************)
\* every path from c to t over parent edges, as the sequence of its commits
RECURSIVE Paths(_, _, _)
Paths(P, c, t) ==
  IF c = t THEN {<<c>>}
  ELSE UNION {{<<c>> \o q : q \in Paths(P, P[c][i], t)} : i \in DOMAIN P[c]}

\* the number of edges of the shortest path from c to t (t reachable from c)
Distance(P, c, t) ==
  LET lens == {Len(q) - 1 : q \in Paths(P, c, t)}
  IN CHOOSE d \in lens : \A e \in lens : d <= e

\* the tagged commits reachable from the start commit
ReachableTagged == Reach(parentsOf, GITHUB_SHA) \cap DOMAIN tags

\* t is reachable from the start by two paths of different lengths that
\* share no commit but their ends
Diamond(t) ==
  \E q1, q2 \in Paths(parentsOf, GITHUB_SHA, t) :
    /\ Len(q1) # Len(q2)
    /\ Range(q1) \cap Range(q2) = {GITHUB_SHA, t}

\* findClosestTag was called and has thrown an error that is not a failed
\* request of the service
WalkThrew ==
  /\ pc = "failed"
  /\ nodes # <<>>
  /\ result = <<>>
  /\ failed # <<ListCommitsError>>

\* findClosestTag has ended, leaving aside the runs a failed request ended
WalkEnded == result # <<>> \/ WalkThrew

(***************************************************************************)
(* C1. With exactly one tagged commit t reachable from the start, at       *)
(* shortest distance d, findClosestTag ends by returning {tag of t, d}.    *)
(* Violated: on a history longer than one page the walk throws "commit     *)
(* was undefined" (see C4) before it reaches the tag.                      *)
(***************************************************************************)
C1_UniqueTagReturned ==
  \A t \in Commits :
    (ReachableTagged = {t} /\ WalkEnded) =>
      result = <<[tag |-> tags[t], distance |-> Distance(parentsOf, GITHUB_SHA, t)]>>

(***************************************************************************)
(* C2. With no tagged commit reachable from the start, findClosestTag      *)
(* terminates and returns {tag: "", distance: -1} (unless an error ends    *)
(* the run first).  Violated: the level marker is pushed back every time   *)
(* it is shifted, so todo never empties and the loop never ends.           *)
(***************************************************************************)
C2_NoTagReturnsSentinel ==
  [](((pc = "findClosestTag") /\ ReachableTagged = {}) =>
       <>(result = <<NotFound>> \/ pc = "failed"))

(***************************************************************************)
(* C3. When the only reachable tagged commit t is reachable by two         *)
(* disjoint paths of different lengths, the distance findClosestTag        *)
(* returns is the length of the shorter (the shortest) path.               *)
(***************************************************************************)
C3_DiamondShorterPath ==
  \A t \in Commits :
    (result # <<>> /\ ReachableTagged = {t} /\ Diamond(t)) =>
      result[1].distance = Distance(parentsOf, GITHUB_SHA, t)

\* the walk returned across a diamond whose two paths have 1 and 2 edges
C3_Witness ==
  /\ result # <<>>
  /\ \E t \in Commits :
       /\ ReachableTagged = {t}
       /\ Diamond(t)
       /\ result[1].distance = 1
       /\ \E q \in Paths(parentsOf, GITHUB_SHA, t) : Len(q) = 3

(***************************************************************************)
(* C4. The history listing of the service from any commit X contains X,    *)
(* so no provider call ever throws "commit X was undefined": a call ends   *)
(* by returning X's commit (or with the error of a failed request).        *)
(* Violated: the page counter is shared by all calls and never reset, so   *)
(* the second cache miss asks for page 1 of X's history, which lacks X.    *)
(***************************************************************************)
C4_ResolveNeverUndefined ==
  \A i \in DOMAIN calls :
    /\ calls[i].st = "err" => calls[i].err = ListCommitsError
    /\ calls[i].st = "ok" => calls[i].commit = <<RawCommit(parentsOf, calls[i].hash)>>

(***************************************************************************)
(* C5. The version run emits is the start commit's identifier when the     *)
(* distance is negative, the tag when it is 0, and "tag-distance-sha"      *)
(* when it is positive.                                                    *)
(***************************************************************************)
C5_VersionFormat ==
  output # <<>> =>
    LET r == result[1]
        id == Sha(GITHUB_SHA)
    IN /\ Len(output) = 1
       /\ r.distance < 0 => output[1] = id
       /\ r.distance = 0 => output[1] = r.tag
       /\ r.distance > 0 => output[1] = r.tag \o "-" \o ToString(r.distance) \o "-" \o id
       /\ envFile # <<>> => envFile = <<"VERSION=" \o output[1]>>

\* two commits ahead of tag v1 at start commit C2: "v1-2-C2", on both channels
C5_Witness ==
  /\ result = <<[tag |-> "v1", distance |-> 2]>>
  /\ GITHUB_SHA = 2
  /\ output = <<"v1-2-C2">>
  /\ envFile = <<"VERSION=v1-2-C2">>

(***************************************************************************)
(* C6. getTags terminates, and every call of the provider terminates,      *)
(* whatever the number of tags and the length of the history, lists that   *)
(* fill their last page exactly included.                                  *)
(***************************************************************************)
CallPending(i) == i \in DOMAIN calls /\ calls[i].st = "wait"

C6_PagingTerminates ==
  /\ <>(pc \notin {"getTags", "listTags"})
  /\ \A i \in CallIds : [](CallPending(i) => <>(~CallPending(i)))

\* getTags has ended on a tag list of exactly two full pages, after asking
\* for the empty third page; the start commit's history of exactly one full
\* page is resolved
C6_Witness ==
  /\ Len(svcTags) = 2 * pageSize
  /\ tagPage = 3
  /\ Cardinality(Reach(parentsOf, GITHUB_SHA)) = pageSize
  /\ pc = "findClosestTag"
  /\ page = 1

(***************************************************************************)
(* C7. A provider call for an identifier that is in the cache returns the  *)
(* cached commit at once: no request goes out, and the cache and the page  *)
(* counter stay as they are.                                               *)
(***************************************************************************)
\* this step calls the provider (getHistory's call, or those of parents())
CallsProvider == pc \in {"getHistory", "findClosestTag"} /\ pc' \in {"provider", "parents"}

C7_CachedResolveIsLocal ==
  [][CallsProvider =>
       \A i \in DOMAIN calls' :
         calls'[i].hash \in DOMAIN commits =>
           /\ calls'[i].st = "ok"
           /\ calls'[i].commit = <<commits[calls'[i].hash]>>
           /\ commits' = commits
           /\ page' = page]_vars

\* parents() found every parent in the cache: all its calls returned and the
\* only request so far is the one that resolved the start commit
C7_Witness ==
  /\ pc = "parents"
  /\ calls # <<>>
  /\ AllReturned
  /\ page = 1

(***************************************************************************)
(* C8. When getTags has completed, the tag index has an entry for the      *)
(* target commit of every tag of the service, on whatever page, and for    *)
(* nothing else; a commit with several tags maps to the name of the tag    *)
(* that comes last in the service's list.                                  *)
(***************************************************************************)
C8_TagIndexComplete ==
  pc = "getHistory" =>
    /\ DOMAIN tags = {svcTags[i].sha : i \in DOMAIN svcTags}
    /\ \A i \in DOMAIN svcTags :
         (\A j \in DOMAIN svcTags : svcTags[j].sha = svcTags[i].sha => j <= i)
           => tags[svcTags[i].sha] = svcTags[i].name

\* getTags completed over two pages; a commit tagged on the first page is
\* tagged again on the second, and the index holds the later name
C8_Witness ==
  /\ pc = "getHistory"
  /\ Len(svcTags) = pageSize + 1
  /\ svcTags[1].sha = svcTags[pageSize + 1].sha
  /\ tags[svcTags[1].sha] = TagName(pageSize + 1)
  /\ Cardinality(DOMAIN tags) > 1

(***************************************************************************)
(* C9. A run in which a step failed reports exactly one failure, with the  *)
(* error's message, and has emitted no version, neither with setOutput     *)
(* nor to the environment file.                                            *)
(* Violated: setOutput has already run when appendFileSync throws.         *)
(***************************************************************************)
C9_FailureLeavesNoOutput ==
  /\ pc = "failed" => Len(failed) = 1
  /\ failed # <<>> => (output = <<>> /\ envFile = <<>>)

(***************************************************************************)
(* C10. The commit cache only grows: an identifier in the cache stays in   *)
(* it, mapped to the same raw commit, at every step.                       *)
(***************************************************************************)
C10_CacheMonotonic ==
  [][\A c \in DOMAIN commits : c \in DOMAIN commits' /\ commits'[c] = commits[c]]_vars

\* a second request added to the cache what the first had not listed: the
\* cache holds every commit of the service
C10_Witness ==
  /\ page = 2
  /\ DOMAIN commits = Commits
  /\ pc = "findClosestTag"

(***************************************************************************)
(* C11. getHistory + findClosestTag invoked again on the same start        *)
(* commit, tag index and service state ends as every earlier invocation    *)
(* did: with the same {tag, distance}, or with the same error, whatever    *)
(* the order in which the concurrent parent requests are answered.         *)
(* Violated: when two parents of a merge commit are both missing from the  *)
(* cache and the shared page counter is past the first page (see C4), the  *)
(* call whose request is answered first throws, so the error names         *)
(* whichever parent the service answered first.                            *)
(***************************************************************************)
C11_RepeatSameOutcome ==
  pc \in {"returned", "failed"} => \A k \in DOMAIN previous : previous[k] = Outcome

(***************************************************************************)
(* C12. During one traversal every commit identifier is expanded (marked   *)
(* visited, its parents resolved and enqueued) at most once, however many  *)
(* merge paths lead to it.                                                 *)
(* Violated: visited is a field of the node object, and parents() builds   *)
(* new objects at every expansion, so the object dequeued for a commit     *)
(* reached a second time is never the one that was marked.                 *)
(***************************************************************************)
\* the node objects of commit c that were expanded
Expanded(c) == {h \in DOMAIN nodes : nodes[h].sha = c /\ nodes[h].visited}

C12_ExpandedOnce == \A c \in DOMAIN parentsOf : Cardinality(Expanded(c)) <= 1

(***************************************************************************)
(* C13. When the parents of an expanded node are resolved, they are        *)
(* appended to the tail of the frontier, one node per parent identifier,   *)
(* in the order of the node's parent list, whatever the order in which the *)
(* concurrent requests were answered.                                      *)
(***************************************************************************)
\* this step is todo.push(...(await head.parents()))
PushesParents == pc = "parents" /\ pc' = "findClosestTag"

C13_ParentsInListOrder ==
  [][PushesParents =>
       LET ids == nodes[head].parentSha
       IN /\ Len(todo') = Len(todo) + Len(ids)
          /\ SubSeq(todo', 1, Len(todo)) = todo
          /\ \A i \in DOMAIN ids :
               /\ todo'[Len(todo) + i] # NULL
               /\ nodes'[todo'[Len(todo) + i]].sha = ids[i]]_vars

\* two parents were pushed in list order although the request for the
\* second was answered before the request for the first
C13_Witness ==
  /\ pc = "findClosestTag"
  /\ Len(answered) >= 2
  /\ Len(todo) >= 2
  /\ LET n == Len(answered)
         m == Len(todo)
     IN /\ todo[m - 1] # NULL
        /\ todo[m] # NULL
        /\ nodes[todo[m - 1]].sha = answered[n].sha
        /\ nodes[todo[m]].sha = answered[n - 1].sha
        /\ nodes[head].parentSha = <<answered[n].sha, answered[n - 1].sha>>

(***************************************************************************)
(* C14. When several tagged commits lie at the minimum distance from the   *)
(* start, findClosestTag returns the tag of the one that comes first in    *)
(* breadth-first enqueue order (level by level, the parents of each commit *)
(* in the service's order), whatever the tags are named.                   *)
(***************************************************************************)
\* the parents of the commits of lvl, in order
RECURSIVE ParentsOfLevel(_, _)
ParentsOfLevel(P, lvl) ==
  IF lvl = <<>> THEN <<>> ELSE P[Head(lvl)] \o ParentsOfLevel(P, Tail(lvl))

\* the first commit of lvl that has a tag in index, lvl having one
FirstTagged(index, lvl) ==
  lvl[CHOOSE i \in DOMAIN lvl :
        /\ lvl[i] \in DOMAIN index
        /\ \A j \in 1 .. (i - 1) : lvl[j] \notin DOMAIN index]

\* the first tagged commit in breadth-first enqueue order from the level
\* lvl on, some tagged commit being reachable from it
RECURSIVE BreadthFirstTagged(_, _, _)
BreadthFirstTagged(P, index, lvl) ==
  IF \E i \in DOMAIN lvl : lvl[i] \in DOMAIN index
  THEN FirstTagged(index, lvl)
  ELSE BreadthFirstTagged(P, index, ParentsOfLevel(P, lvl))

\* the reachable tagged commits at the minimum distance from the start
ClosestTagged ==
  {t \in ReachableTagged :
     \A u \in ReachableTagged :
       Distance(parentsOf, GITHUB_SHA, t) <= Distance(parentsOf, GITHUB_SHA, u)}

C14_TieByEnqueueOrder ==
  (result # <<>> /\ Cardinality(ClosestTagged) >= 2) =>
    result[1].tag = tags[BreadthFirstTagged(parentsOf, tags, <<GITHUB_SHA>>)]

\* two tagged parents of one commit tie at the minimum distance; the one
\* listed first carries the tag named v2 and that tag is returned, not v1
C14_Witness ==
  /\ result # <<>>
  /\ Cardinality(ClosestTagged) = 2
  /\ result[1].tag = TagName(2)
  /\ result[1].distance >= 1
  /\ \E t \in ClosestTagged : tags[t] = TagName(1)
(***************************************************************************)
(* C15. No two listCommits requests for the same commit identifier are in  *)
(* flight at the same time, and no two listTags requests: a tag request in *)
(* flight is the one getTags is suspended on, with no history request      *)
(* beside it.  Requests in flight together are those of the distinct       *)
(* parents of the node dequeued last.                                      *)
(***************************************************************************)
\* the provider calls whose request is in flight
InFlight == {i \in DOMAIN calls : calls[i].st = "wait"}

C15_NoDuplicateRequests ==
  /\ \A i, j \in InFlight : calls[i].hash = calls[j].hash => i = j
  /\ tagReq # NoRequest => (pc = "listTags" /\ tagReq = tagPage /\ InFlight = {})
  /\ Cardinality(InFlight) >= 2 =>
       /\ head # NULL
       /\ \A i \in InFlight : calls[i].hash = nodes[head].parentSha[i]

\* the requests for the two parents of a merge commit are in flight together
C15_Witness ==
  /\ pc = "parents"
  /\ InFlight = {1, 2}
  /\ calls[1].hash # calls[2].hash
  /\ calls[1].reqPage = calls[2].reqPage
(***************************************************************************)
(* C16. The depth counter is the level of the node being dequeued: every   *)
(* commit node ahead of the level marker in the frontier was made by       *)
(* `depth` parents() hops from the start node, every commit node behind    *)
(* the marker by depth + 1; so a node is dequeued, expanded or returned    *)
(* at a depth equal to the number of edges of the path that enqueued it.   *)
(***************************************************************************)
\* the element at position k of the frontier comes after the level marker
BehindMarker(k) == \E j \in 1 .. (k - 1) : todo[j] = NULL

C16_DepthIsLevel ==
  /\ \A k \in DOMAIN todo :
       todo[k] # NULL => level[todo[k]] = IF BehindMarker(k) THEN depth + 1 ELSE depth
  /\ pc = "parents" => level[head] = depth
  /\ (result # <<>> /\ result[1].distance >= 0) => level[head] = result[1].distance

\* in the middle of level 1: a node of level 1 ahead of the marker, a node
\* of level 2 behind it
C16_Witness ==
  /\ pc = "findClosestTag"
  /\ depth = 1
  /\ Len(todo) = 3
  /\ todo[2] = NULL
  /\ todo[1] # NULL
  /\ todo[3] # NULL
  /\ level[todo[1]] = 1
  /\ level[todo[3]] = 2
(***************************************************************************)
(* C17. At the head of every iteration of the loop of findClosestTag, and  *)
(* while an iteration awaits the parents, the frontier holds exactly one   *)
(* level marker: the step that shifts the marker pushes it back.           *)
(***************************************************************************)
\* the positions of the frontier that hold the level marker
Markers == {k \in DOMAIN todo : todo[k] = NULL}

C17_OneMarker == pc \in {"findClosestTag", "parents"} => Cardinality(Markers) = 1

\* the marker was shifted and pushed back behind the nodes of level 1
C17_Witness ==
  /\ pc = "findClosestTag"
  /\ head = NULL
  /\ depth = 1
  /\ Len(todo) >= 2
  /\ Markers = {Len(todo)}

=============================================================================
